---- MODULE Spec2Model ----
(***************************************************************************)
(* Identity resolution and credential lifecycle of the planning-poker      *)
(* server (src/handlers.go): the two gates (adminOnly, warriorOnly), the   *)
(* session-cookie helpers and the account / API-key handlers.              *)
(*                                                                         *)
(* Strings are sequences of one-character strings, so that length,         *)
(* trimming and equality are computed, not assumed.  Warrior, key and      *)
(* token IDs are positive integers in order of issue; the empty string     *)
(* used as "no ID" is EmptyID.                                             *)
(*                                                                         *)
(* One request is served per Handle step (gate and wrapped handler run as  *)
(* one step); Finish ends the request: the ResponseWriter and the Request  *)
(* are request-scoped and are dropped when the handler returns.            *)
(***************************************************************************)
EXTENDS Integers, Sequences, FiniteSets, TLC

VARIABLES
    db,      \* s.database: the persistent store
    config,  \* viper flags read by the handlers
    req,     \* the request being served, NoReq between requests
    resp,    \* what the handler did with its ResponseWriter and collaborators
    before,  \* the store as it was when the request arrived
    verifyWins \* per verification token, the verify requests answered with success

vars == <<db, config, req, resp, before, verifyWins>>

(***************************************************************************)
(* Bounds of the model                                                     *)
(***************************************************************************)
MaxWarriors == 2
MaxKeys == 2
MaxResets == 1

(***************************************************************************)
(* Program constants                                                       *)
(***************************************************************************)
StatusOK == 200
StatusBadRequest == 400
StatusUnauthorized == 401
StatusInternalServerError == 500
MinPassword == 6
MaxPassword == 72
RegisteredCookieDays == 30
GuestCookieDays == 365
SecondsPerDay == 86400
EmptyID == 0
NoStatus == 0

NoReq == [op |-> "none"]
NoResp == [op |-> "none"]
NoBody == [kind |-> "none"]

(***************************************************************************)
(* Strings                                                                 *)
(***************************************************************************)
Rep(c, n) == [i \in 1..n |-> c]

RECURSIVE TrimLeft(_)
TrimLeft(s) ==
    IF s # <<>> /\ Head(s) = " " THEN TrimLeft(Tail(s)) ELSE s

RECURSIVE TrimRight(_)
TrimRight(s) ==
    IF s # <<>> /\ s[Len(s)] = " " THEN TrimRight(SubSeq(s, 1, Len(s) - 1)) ELSE s

\* strings.TrimSpace
TrimSpace(s) == TrimRight(TrimLeft(s))

(***************************************************************************)
(* Input vocabulary                                                        *)
(***************************************************************************)
Secret(k) == Rep("k", k)                    \* the secret revealed for key k
BogusKey == <<"x">>                         \* a secret the store never issued
BlankHeader == <<" ">>                      \* a header of white space only
Email(i) == Rep("u", i) \o <<"@", "x">>     \* the i-th well-formed address
BadEmail == <<"u", "x">>                    \* no @ sign
SomeName == <<"n">>
OtherName == <<"m">>
SomeLabel == <<"l">>
PwdMin == Rep("a", MinPassword)
PwdMax == Rep("a", MaxPassword)
PwdOther == Rep("b", MinPassword)
PwdShort == Rep("a", MinPassword - 1)
PwdLong == Rep("a", MaxPassword + 1)

(***************************************************************************)
(* SessionCookieCodec: s.cookie (securecookie).  A value carries the ID    *)
(* and a MAC over it under the hash key of the codec that encoded it;      *)
(* Decode recomputes the MAC under the server's key.                       *)
(***************************************************************************)
ServerKey == "server-hash-key"
ForeignKey == "another-hash-key"

Mac(key, id) == <<key, id>>

Encode(key, id) == [id |-> id, mac |-> Mac(key, id)]

Decode(value) ==
    IF value.mac = Mac(ServerKey, value.id)
    THEN [err |-> FALSE, value |-> value.id]
    ELSE [err |-> TRUE, value |-> EmptyID]

ClearFrontend == [name |-> "frontend", value |-> <<>>, maxAge |-> -1]
ClearBackend == [name |-> "backend", value |-> <<>>, maxAge |-> -1]

(***************************************************************************)
(* Validation (validator.v9 struct tags)                                   *)
(***************************************************************************)
Required(s) == s # <<>>

Count(s, c) == Cardinality({i \in 1..Len(s) : s[i] = c})

\* validate:"email": one @ with a local part before it and a domain after it
IsEmail(s) ==
    /\ Count(s, "@") = 1
    /\ Count(s, " ") = 0
    /\ s[1] # "@"
    /\ s[Len(s)] # "@"

PasswordRule(p) == Required(p) /\ Len(p) >= MinPassword /\ Len(p) <= MaxPassword

\* ValidateWarriorAccount without validate:"required" on Name
ValidateWarriorAccount_noName(name, email, pwd1, pwd2) ==
    [name |-> name, email |-> email, password |-> pwd1,
     err |-> ~(/\ Required(email) /\ IsEmail(email)
               /\ PasswordRule(pwd1)
               /\ PasswordRule(pwd2) /\ pwd2 = pwd1)]

ValidateWarriorAccount(name, email, pwd1, pwd2) ==
    [name |-> name, email |-> email, password |-> pwd1,
     err |-> ~(/\ Required(name)
               /\ Required(email) /\ IsEmail(email)
               /\ PasswordRule(pwd1)
               /\ PasswordRule(pwd2) /\ pwd2 = pwd1)]


\* ValidateWarriorPassword without eqfield=Password1
ValidateWarriorPassword_noEqfield(pwd1, pwd2) ==
    [password |-> pwd1, err |-> ~(PasswordRule(pwd1) /\ PasswordRule(pwd2))]

ValidateWarriorPassword(pwd1, pwd2) ==
    [password |-> pwd1,
     err |-> ~(PasswordRule(pwd1) /\ PasswordRule(pwd2) /\ pwd2 = pwd1)]

(***************************************************************************)
(* ResponseWriter and the per-request record of what the handler did       *)
(***************************************************************************)
NewExchange(d, op) ==
    [op |-> op, db |-> d,
     status |-> <<>>,        \* every WriteHeader call, in order
     cookies |-> <<>>,       \* every http.SetCookie call, in order
     body |-> NoBody,
     mail |-> <<>>,          \* every s.email call, in order
     calls |-> <<>>,         \* every s.database call, in order
     decoded |-> FALSE,      \* s.cookie.Decode was called
     handler |-> FALSE,      \* the wrapped handler was invoked
     ctxID |-> EmptyID,      \* contextKeyWarriorID of the handler's request
     trace |-> <<>>,         \* the s.database and s.email calls, in order
     mailErrs |-> 0,         \* the s.email calls whose dispatch failed
     panicked |-> FALSE]     \* the handler panicked: net/http drops the request

WriteHeader(x, code) == [x EXCEPT !.status = Append(@, code)]

SetCookie(x, cookie) == [x EXCEPT !.cookies = Append(@, cookie)]

RespondWithJSON(x, code, payload) ==
    [WriteHeader(x, code) EXCEPT !.body = payload]

\* a store call and the ID it was made for (EmptyID when it takes none)
Called(x, fn, id) ==
    [x EXCEPT !.calls = Append(@, [fn |-> fn, id |-> id]),
              !.trace = Append(@, fn)]

\* a call of s.email; mailErr: the dispatch fails (the call returns nothing)
Sent(x, kind, to, token, mailErr) ==
    [x EXCEPT !.mail = Append(@, [kind |-> kind, to |-> to, token |-> token]),
              !.mailErrs = IF mailErr THEN @ + 1 ELSE @,
              !.trace = Append(@, kind)]

\* a failed type assertion x.(T): the handler panics where it stands
Panic(x) == [x EXCEPT !.panicked = TRUE]

\* net/http: the first WriteHeader decides the status, 200 when none was made;
\* a handler that panicked before any write sends no response at all
Status(r) ==
    IF r.status # <<>> THEN Head(r.status)
    ELSE IF r.panicked THEN NoStatus
    ELSE StatusOK

(***************************************************************************)
(* The store, s.database (pkg/database).  Every operation is one atomic    *)
(* call; it returns the store after the call beside its results.           *)
(*   warriors  : sequence of member records, the ID is the index           *)
(*   apiKeys   : key ID -> key record, for the keys not deleted            *)
(*   verifies  : pending verification token -> member ID                   *)
(*   resets    : pending password-reset token -> member ID                 *)
(*   keysIssued, verifiesIssued, resetsIssued: IDs are never reused        *)
(***************************************************************************)
HashPassword(pwd) == [hash |-> pwd]

WarriorIDs(d) == DOMAIN d.warriors

WarriorView(d, id) ==
    [kind |-> "warrior", id |-> id, name |-> d.warriors[id].name,
     email |-> d.warriors[id].email, rank |-> d.warriors[id].rank,
     verified |-> d.warriors[id].verified]

KeyView(d, k) ==
    [id |-> k, name |-> d.apiKeys[k].name, owner |-> d.apiKeys[k].owner,
     active |-> d.apiKeys[k].active]

GetWarrior(d, id) ==
    IF id \in WarriorIDs(d)
    THEN [err |-> FALSE, warrior |-> WarriorView(d, id)]
    ELSE [err |-> TRUE, warrior |-> NoBody]

ConfirmAdmin(d, id) ==
    [err |-> ~(id \in WarriorIDs(d) /\ d.warriors[id].rank = "GENERAL")]

ValidateAPIKey(d, apk) ==
    LET hit == {k \in DOMAIN d.apiKeys :
                    d.apiKeys[k].secret = apk /\ d.apiKeys[k].active}
    IN  IF hit = {}
        THEN [err |-> TRUE, id |-> EmptyID]
        ELSE [err |-> FALSE, id |-> d.apiKeys[CHOOSE k \in hit : TRUE].owner]

CreateWarriorCorporal(d, name, email, pwd, activeID) ==
    IF \E i \in WarriorIDs(d) : d.warriors[i].email = email
    THEN [db |-> d, err |-> TRUE, warrior |-> NoBody, verifyID |-> EmptyID]
    ELSE LET id == Len(d.warriors) + 1
             vid == d.verifiesIssued + 1
             d2 == [d EXCEPT
                      !.warriors = Append(@, [name |-> name, email |-> email,
                                              password |-> HashPassword(pwd),
                                              rank |-> "CORPORAL",
                                              verified |-> FALSE]),
                      !.verifies = @ @@ (vid :> id),
                      !.verifiesIssued = vid]
         IN  [db |-> d2, err |-> FALSE, warrior |-> WarriorView(d2, id),
              verifyID |-> vid]

VerifyWarriorAccount(d, verifyID) ==
    IF verifyID \notin DOMAIN d.verifies
    THEN [db |-> d, err |-> TRUE]
    ELSE [db |-> [d EXCEPT
                    !.warriors[d.verifies[verifyID]].verified = TRUE,
                    !.verifies = [t \in DOMAIN @ \ {verifyID} |-> @[t]]],
          err |-> FALSE]

WarriorResetRequest(d, email) ==
    LET hit == {i \in WarriorIDs(d) : d.warriors[i].email = email}
    IN  IF hit = {} \/ email = <<>>
        THEN [db |-> d, err |-> TRUE, resetID |-> EmptyID, name |-> <<>>]
        ELSE LET id == CHOOSE i \in hit : TRUE
                 rid == d.resetsIssued + 1
             IN  [db |-> [d EXCEPT !.resets = @ @@ (rid :> id),
                                   !.resetsIssued = rid],
                  err |-> FALSE, resetID |-> rid, name |-> d.warriors[id].name]

WarriorResetPassword(d, resetID, pwd) ==
    IF resetID \notin DOMAIN d.resets
    THEN [db |-> d, err |-> TRUE, name |-> <<>>, email |-> <<>>]
    ELSE LET id == d.resets[resetID]
         IN  [db |-> [d EXCEPT
                        !.warriors[id].password = HashPassword(pwd),
                        !.resets = [t \in DOMAIN @ \ {resetID} |-> @[t]]],
              err |-> FALSE, name |-> d.warriors[id].name,
              email |-> d.warriors[id].email]

WarriorUpdatePassword(d, id, pwd) ==
    IF id \notin WarriorIDs(d)
    THEN [db |-> d, err |-> TRUE, name |-> <<>>, email |-> <<>>]
    ELSE [db |-> [d EXCEPT !.warriors[id].password = HashPassword(pwd)],
          err |-> FALSE, name |-> d.warriors[id].name,
          email |-> d.warriors[id].email]

GetWarriorAPIKeys(d, id) ==
    {KeyView(d, k) : k \in {j \in DOMAIN d.apiKeys : d.apiKeys[j].owner = id}}

GenerateAPIKey(d, id, name) ==
    IF id \notin WarriorIDs(d)
    THEN [db |-> d, err |-> TRUE, key |-> NoBody]
    ELSE LET k == d.keysIssued + 1
         IN  [db |-> [d EXCEPT
                        !.apiKeys = @ @@ (k :> [name |-> name, owner |-> id,
                                                secret |-> Secret(k),
                                                active |-> TRUE]),
                        !.keysIssued = k],
              err |-> FALSE,
              key |-> [kind |-> "apikey", id |-> k, name |-> name,
                       owner |-> id, active |-> TRUE, key |-> Secret(k)]]

UpdateWarriorAPIKey(d, id, keyID, active) ==
    LET d2 == IF keyID \in DOMAIN d.apiKeys /\ d.apiKeys[keyID].owner = id
              THEN [d EXCEPT !.apiKeys[keyID].active = active]
              ELSE d
    IN  [db |-> d2, err |-> FALSE, keys |-> GetWarriorAPIKeys(d2, id)]

DeleteWarriorAPIKey(d, id, keyID) ==
    LET d2 == IF keyID \in DOMAIN d.apiKeys /\ d.apiKeys[keyID].owner = id
              THEN [d EXCEPT !.apiKeys = [k \in DOMAIN @ \ {keyID} |-> @[k]]]
              ELSE d
    IN  [db |-> d2, err |-> FALSE, keys |-> GetWarriorAPIKeys(d2, id)]

PromoteWarrior(d, id) ==
    IF id \notin WarriorIDs(d)
    THEN [db |-> d, err |-> TRUE]
    ELSE [db |-> [d EXCEPT !.warriors[id].rank = "GENERAL"], err |-> FALSE]

DemoteWarrior(d, id) ==
    IF id \notin WarriorIDs(d)
    THEN [db |-> d, err |-> TRUE]
    ELSE [db |-> [d EXCEPT !.warriors[id].rank = "CORPORAL"], err |-> FALSE]

\* a guest has neither address nor password
NoPassword == [none |-> TRUE]

\* storeErr: the store failed on this call
CreateWarriorPrivate(d, name, storeErr) ==
    IF storeErr
    THEN [db |-> d, err |-> TRUE, warrior |-> NoBody]
    ELSE LET id == Len(d.warriors) + 1
             d2 == [d EXCEPT
                      !.warriors = Append(@, [name |-> name, email |-> <<>>,
                                              password |-> NoPassword,
                                              rank |-> "PRIVATE",
                                              verified |-> FALSE])]
         IN  [db |-> d2, err |-> FALSE, warrior |-> WarriorView(d2, id)]

UpdateWarriorProfile(d, id, name) ==
    IF id \notin WarriorIDs(d)
    THEN [db |-> d, err |-> TRUE]
    ELSE [db |-> [d EXCEPT !.warriors[id].name = name], err |-> FALSE]

\* s.authWarriorDatabase: the member registered under the address, if the
\* password is the one stored for it
authWarriorDatabase(d, email, pwd) ==
    LET hit == {i \in WarriorIDs(d) :
                    /\ email # <<>>
                    /\ d.warriors[i].email = email
                    /\ d.warriors[i].password = HashPassword(pwd)}
    IN  IF hit = {}
        THEN [err |-> TRUE, warrior |-> NoBody]
        ELSE [err |-> FALSE, warrior |-> WarriorView(d, CHOOSE i \in hit : TRUE)]

(***************************************************************************)
(* Cookie helpers                                                          *)
(***************************************************************************)
\* encodeErr: s.cookie.Encode returned an error on this request
\* createWarriorCookie with the guest lifetime for every member
createWarriorCookie_guestDays(x, isRegistered, WarriorID, encodeErr) ==
    IF encodeErr
    THEN WriteHeader(x, StatusInternalServerError)
    ELSE SetCookie(x, [name |-> "backend",
                       value |-> Encode(ServerKey, WarriorID),
                       maxAge |-> SecondsPerDay * GuestCookieDays])

createWarriorCookie(x, isRegistered, WarriorID, encodeErr) ==
    LET cookiedays == IF isRegistered THEN RegisteredCookieDays
                      ELSE GuestCookieDays
    IN  IF encodeErr
        THEN WriteHeader(x, StatusInternalServerError)
        ELSE SetCookie(x, [name |-> "backend",
                           value |-> Encode(ServerKey, WarriorID),
                           maxAge |-> SecondsPerDay * cookiedays])

clearWarriorCookies(x) == SetCookie(SetCookie(x, ClearFrontend), ClearBackend)

\* s.createCookie: the session cookie of a login, <<>> for nil
createCookie(WarriorID, encodeErr) ==
    IF encodeErr THEN <<>>
    ELSE <<[name |-> "backend", value |-> Encode(ServerKey, WarriorID),
            maxAge |-> SecondsPerDay * RegisteredCookieDays]>>

\* r.cookie is <<>> (no backend cookie on the request) or <<value>>

\* validateWarriorCookie without the clearing on a failed decode
validateWarriorCookie_keepsCookies(x, r) ==
    IF r.cookie # <<>>
    THEN LET dec == Decode(r.cookie[1])
             x1 == [x EXCEPT !.decoded = TRUE]
         IN  IF ~dec.err
             THEN [x |-> x1, id |-> dec.value, err |-> FALSE]
             ELSE [x |-> x1, id |-> EmptyID, err |-> TRUE]
    ELSE [x |-> clearWarriorCookies(x), id |-> EmptyID, err |-> TRUE]

validateWarriorCookie(x, r) ==
    IF r.cookie # <<>>
    THEN LET dec == Decode(r.cookie[1])
             x1 == [x EXCEPT !.decoded = TRUE]
         IN  IF ~dec.err
             THEN [x |-> x1, id |-> dec.value, err |-> FALSE]
             ELSE [x |-> clearWarriorCookies(x1), id |-> EmptyID, err |-> TRUE]
    ELSE [x |-> clearWarriorCookies(x), id |-> EmptyID, err |-> TRUE]

(***************************************************************************)
(* Middlewares.  The result has handler = TRUE and ctxID bound when the    *)
(* wrapped handler is to be invoked, and is the finished response          *)
(* otherwise.                                                              *)
(***************************************************************************)

\* adminOnly invoking the handler without binding the resolved ID
adminOnly_unbound(x, r) ==
    LET apiKey == TrimSpace(r.apiKey)
        res == IF apiKey # <<>>
               THEN LET v == ValidateAPIKey(x.db, apiKey)
                    IN  [x |-> Called(x, "ValidateAPIKey", EmptyID), id |-> v.id,
                         err |-> v.err]
               ELSE validateWarriorCookie(x, r)
    IN  IF res.err
        THEN WriteHeader(res.x, StatusUnauthorized)
        ELSE LET x1 == Called(res.x, "ConfirmAdmin", res.id)
             IN  IF ConfirmAdmin(x.db, res.id).err
                 THEN WriteHeader(x1, StatusUnauthorized)
                 ELSE [x1 EXCEPT !.handler = TRUE]

\* adminOnly dropping the result of ConfirmAdmin
adminOnly_unconfirmed(x, r) ==
    LET apiKey == TrimSpace(r.apiKey)
        res == IF apiKey # <<>>
               THEN LET v == ValidateAPIKey(x.db, apiKey)
                    IN  [x |-> Called(x, "ValidateAPIKey", EmptyID), id |-> v.id,
                         err |-> v.err]
               ELSE validateWarriorCookie(x, r)
    IN  IF res.err
        THEN WriteHeader(res.x, StatusUnauthorized)
        ELSE [Called(res.x, "ConfirmAdmin", res.id)
                EXCEPT !.handler = TRUE, !.ctxID = res.id]

\* adminOnly checking the cookie as well when the API key was accepted
adminOnly_bothCredentials(x, r) ==
    LET apiKey == TrimSpace(r.apiKey)
        res == IF apiKey # <<>>
               THEN LET v == ValidateAPIKey(x.db, apiKey)
                        x1 == Called(x, "ValidateAPIKey", EmptyID)
                        c == validateWarriorCookie(x1, r)
                    IN  IF v.err \/ r.cookie = <<>>
                        THEN [x |-> x1, id |-> v.id, err |-> v.err]
                        ELSE [x |-> c.x, id |-> v.id, err |-> c.err]
               ELSE validateWarriorCookie(x, r)
    IN  IF res.err
        THEN WriteHeader(res.x, StatusUnauthorized)
        ELSE LET x1 == Called(res.x, "ConfirmAdmin", res.id)
             IN  IF ConfirmAdmin(x.db, res.id).err
                 THEN WriteHeader(x1, StatusUnauthorized)
                 ELSE [x1 EXCEPT !.handler = TRUE, !.ctxID = res.id]

adminOnly(x, r) ==
    LET apiKey == TrimSpace(r.apiKey)
        res == IF apiKey # <<>>
               THEN LET v == ValidateAPIKey(x.db, apiKey)
                    IN  [x |-> Called(x, "ValidateAPIKey", EmptyID), id |-> v.id,
                         err |-> v.err]
               ELSE validateWarriorCookie(x, r)
    IN  IF res.err
        THEN WriteHeader(res.x, StatusUnauthorized)
        ELSE LET x1 == Called(res.x, "ConfirmAdmin", res.id)
             IN  IF ConfirmAdmin(x.db, res.id).err
                 THEN WriteHeader(x1, StatusUnauthorized)
                 ELSE [x1 EXCEPT !.handler = TRUE, !.ctxID = res.id]


\* r.lookupErr: s.database.GetWarrior returned an error on this request
\* although the record is in the store (the store failed)

\* warriorOnly trying the cookie after a failed API-key lookup
warriorOnly_fallback(x, r) ==
    LET apiKey == TrimSpace(r.apiKey)
        v == ValidateAPIKey(x.db, apiKey)
        res == IF apiKey # <<>> /\ ~v.err
               THEN [x |-> Called(x, "ValidateAPIKey", EmptyID), id |-> v.id,
                     err |-> v.err]
               ELSE validateWarriorCookie(x, r)
    IN  IF res.err
        THEN WriteHeader(res.x, StatusUnauthorized)
        ELSE LET x1 == Called(res.x, "GetWarrior", res.id)
             IN  IF GetWarrior(x.db, res.id).err \/ r.lookupErr
                 THEN WriteHeader(clearWarriorCookies(x1), StatusUnauthorized)
                 ELSE [x1 EXCEPT !.handler = TRUE, !.ctxID = res.id]

\* warriorOnly answering a missing record without clearing the cookies
warriorOnly_keepsCookies(x, r) ==
    LET apiKey == TrimSpace(r.apiKey)
        res == IF apiKey # <<>>
               THEN LET v == ValidateAPIKey(x.db, apiKey)
                    IN  [x |-> Called(x, "ValidateAPIKey", EmptyID), id |-> v.id,
                         err |-> v.err]
               ELSE validateWarriorCookie(x, r)
    IN  IF res.err
        THEN WriteHeader(res.x, StatusUnauthorized)
        ELSE LET x1 == Called(res.x, "GetWarrior", res.id)
             IN  IF GetWarrior(x.db, res.id).err \/ r.lookupErr
                 THEN WriteHeader(x1, StatusUnauthorized)
                 ELSE [x1 EXCEPT !.handler = TRUE, !.ctxID = res.id]

\* warriorOnly without strings.TrimSpace on the header
warriorOnly_noTrim(x, r) ==
    LET apiKey == r.apiKey
        res == IF apiKey # <<>>
               THEN LET v == ValidateAPIKey(x.db, apiKey)
                    IN  [x |-> Called(x, "ValidateAPIKey", EmptyID), id |-> v.id,
                         err |-> v.err]
               ELSE validateWarriorCookie(x, r)
    IN  IF res.err
        THEN WriteHeader(res.x, StatusUnauthorized)
        ELSE LET x1 == Called(res.x, "GetWarrior", res.id)
             IN  IF GetWarrior(x.db, res.id).err \/ r.lookupErr
                 THEN WriteHeader(clearWarriorCookies(x1), StatusUnauthorized)
                 ELSE [x1 EXCEPT !.handler = TRUE, !.ctxID = res.id]

\* warriorOnly clearing the cookies of a missing record on the cookie path only
warriorOnly_clearsOnCookiePath(x, r) ==
    LET apiKey == TrimSpace(r.apiKey)
        res == IF apiKey # <<>>
               THEN LET v == ValidateAPIKey(x.db, apiKey)
                    IN  [x |-> Called(x, "ValidateAPIKey", EmptyID), id |-> v.id,
                         err |-> v.err]
               ELSE validateWarriorCookie(x, r)
    IN  IF res.err
        THEN WriteHeader(res.x, StatusUnauthorized)
        ELSE LET x1 == Called(res.x, "GetWarrior", res.id)
             IN  IF GetWarrior(x.db, res.id).err \/ r.lookupErr
                 THEN WriteHeader(IF apiKey # <<>> THEN x1
                                  ELSE clearWarriorCookies(x1),
                                  StatusUnauthorized)
                 ELSE [x1 EXCEPT !.handler = TRUE, !.ctxID = res.id]

warriorOnly(x, r) ==
    LET apiKey == TrimSpace(r.apiKey)
        res == IF apiKey # <<>>
               THEN LET v == ValidateAPIKey(x.db, apiKey)
                    IN  [x |-> Called(x, "ValidateAPIKey", EmptyID), id |-> v.id,
                         err |-> v.err]
               ELSE validateWarriorCookie(x, r)
    IN  IF res.err
        THEN WriteHeader(res.x, StatusUnauthorized)
        ELSE LET x1 == Called(res.x, "GetWarrior", res.id)
             IN  IF GetWarrior(x.db, res.id).err \/ r.lookupErr
                 THEN WriteHeader(clearWarriorCookies(x1), StatusUnauthorized)
                 ELSE [x1 EXCEPT !.handler = TRUE, !.ctxID = res.id]

(***************************************************************************)
(* Handlers.  x is the exchange so far (for a gated route, the gate's      *)
(* result), r the request.                                                 *)
(***************************************************************************)

\* handleWarriorEnlist turning down a request whose cookie could not be read
handleWarriorEnlist_needsCookie(x, r) ==
    IF ~config.AllowRegistration THEN WriteHeader(x, StatusBadRequest)
    ELSE IF r.jsonErr THEN WriteHeader(x, StatusBadRequest)
    ELSE
    LET active == validateWarriorCookie(x, r)
        acct == ValidateWarriorAccount(r.name, r.email, r.pwd1, r.pwd2)
    IN  IF active.err THEN WriteHeader(active.x, StatusUnauthorized)
        ELSE IF acct.err THEN WriteHeader(active.x, StatusBadRequest)
        ELSE
        LET new == CreateWarriorCorporal(x.db, acct.name, acct.email,
                                         acct.password, active.id)
            x1 == [Called(active.x, "CreateWarriorCorporal", active.id)
                     EXCEPT !.db = new.db]
        IN  IF new.err THEN WriteHeader(x1, StatusInternalServerError)
            ELSE
            LET x2 == createWarriorCookie(x1, TRUE, new.warrior.id, r.encodeErr)
                x3 == Sent(x2, "welcome", acct.email, new.verifyID, r.mailErr)
            IN  RespondWithJSON(x3, StatusOK, new.warrior)

\* handleWarriorEnlist reading the flag after the body and the cookie
handleWarriorEnlist_lateFlag(x, r) ==
    IF r.jsonErr THEN WriteHeader(x, StatusBadRequest)
    ELSE
    LET active == validateWarriorCookie(x, r)
        acct == ValidateWarriorAccount(r.name, r.email, r.pwd1, r.pwd2)
    IN  IF ~config.AllowRegistration THEN WriteHeader(active.x, StatusBadRequest)
        ELSE IF acct.err THEN WriteHeader(active.x, StatusBadRequest)
        ELSE
        LET new == CreateWarriorCorporal(x.db, acct.name, acct.email,
                                         acct.password, active.id)
            x1 == [Called(active.x, "CreateWarriorCorporal", active.id)
                     EXCEPT !.db = new.db]
        IN  IF new.err THEN WriteHeader(x1, StatusInternalServerError)
            ELSE
            LET x2 == createWarriorCookie(x1, TRUE, new.warrior.id, r.encodeErr)
                x3 == Sent(x2, "welcome", acct.email, new.verifyID, r.mailErr)
            IN  RespondWithJSON(x3, StatusOK, new.warrior)

\* handleWarriorEnlist mailing the new member's ID in place of VerifyID
handleWarriorEnlist_wrongToken(x, r) ==
    IF ~config.AllowRegistration THEN WriteHeader(x, StatusBadRequest)
    ELSE IF r.jsonErr THEN WriteHeader(x, StatusBadRequest)
    ELSE
    LET active == validateWarriorCookie(x, r)
        acct == ValidateWarriorAccount(r.name, r.email, r.pwd1, r.pwd2)
    IN  IF acct.err THEN WriteHeader(active.x, StatusBadRequest)
        ELSE
        LET new == CreateWarriorCorporal(x.db, acct.name, acct.email,
                                         acct.password, active.id)
            x1 == [Called(active.x, "CreateWarriorCorporal", active.id)
                     EXCEPT !.db = new.db]
        IN  IF new.err THEN WriteHeader(x1, StatusInternalServerError)
            ELSE
            LET x2 == createWarriorCookie(x1, TRUE, new.warrior.id, r.encodeErr)
                x3 == Sent(x2, "welcome", acct.email, new.warrior.id, r.mailErr)
            IN  RespondWithJSON(x3, StatusOK, new.warrior)

handleWarriorEnlist(x, r) ==
    IF ~config.AllowRegistration THEN WriteHeader(x, StatusBadRequest)
    ELSE IF r.jsonErr THEN WriteHeader(x, StatusBadRequest)
    ELSE
    LET active == validateWarriorCookie(x, r)
        acct == ValidateWarriorAccount(r.name, r.email, r.pwd1, r.pwd2)
    IN  IF acct.err THEN WriteHeader(active.x, StatusBadRequest)
        ELSE
        LET new == CreateWarriorCorporal(x.db, acct.name, acct.email,
                                         acct.password, active.id)
            x1 == [Called(active.x, "CreateWarriorCorporal", active.id)
                     EXCEPT !.db = new.db]
        IN  IF new.err THEN WriteHeader(x1, StatusInternalServerError)
            ELSE
            LET x2 == createWarriorCookie(x1, TRUE, new.warrior.id, r.encodeErr)
                x3 == Sent(x2, "welcome", acct.email, new.verifyID, r.mailErr)
            IN  RespondWithJSON(x3, StatusOK, new.warrior)


\* handleForgotPassword reporting the failed lookup
handleForgotPassword_reportsUnknown(x, r) ==
    LET rr == WarriorResetRequest(x.db, r.email)
        x1 == [Called(x, "WarriorResetRequest", EmptyID) EXCEPT !.db = rr.db]
    IN  IF rr.err THEN WriteHeader(x1, StatusInternalServerError)
        ELSE WriteHeader(Sent(x1, "forgot", r.email, rr.resetID, r.mailErr), StatusOK)

handleForgotPassword(x, r) ==
    LET rr == WarriorResetRequest(x.db, r.email)
        x1 == [Called(x, "WarriorResetRequest", EmptyID) EXCEPT !.db = rr.db]
        x2 == IF ~rr.err THEN Sent(x1, "forgot", r.email, rr.resetID, r.mailErr) ELSE x1
    IN  WriteHeader(x2, StatusOK)

\* handleResetPassword answering 500 when SendPasswordReset fails
handleResetPassword_failsOnMail(x, r) ==
    LET pw == ValidateWarriorPassword(r.pwd1, r.pwd2)
    IN  IF pw.err THEN WriteHeader(x, StatusBadRequest)
        ELSE
        LET rp == WarriorResetPassword(x.db, r.resetId, pw.password)
            x1 == [Called(x, "WarriorResetPassword", r.resetId)
                     EXCEPT !.db = rp.db]
        IN  IF rp.err THEN WriteHeader(x1, StatusInternalServerError)
            ELSE LET x2 == Sent(x1, "reset", rp.email, EmptyID, r.mailErr)
                 IN  IF r.mailErr THEN WriteHeader(x2, StatusInternalServerError)
                     ELSE x2

handleResetPassword(x, r) ==
    LET pw == ValidateWarriorPassword(r.pwd1, r.pwd2)
    IN  IF pw.err THEN WriteHeader(x, StatusBadRequest)
        ELSE
        LET rp == WarriorResetPassword(x.db, r.resetId, pw.password)
            x1 == [Called(x, "WarriorResetPassword", r.resetId)
                     EXCEPT !.db = rp.db]
        IN  IF rp.err THEN WriteHeader(x1, StatusInternalServerError)
            ELSE Sent(x1, "reset", rp.email, EmptyID, r.mailErr)

\* handleUpdatePassword calling SendPasswordUpdate ahead of the store
handleUpdatePassword_mailsFirst(x, r) ==
    LET warriorID == x.ctxID
        pw == ValidateWarriorPassword(r.pwd1, r.pwd2)
    IN  IF pw.err THEN WriteHeader(x, StatusBadRequest)
        ELSE
        LET x0 == Sent(x, "update", x.db.warriors[warriorID].email, EmptyID,
                       r.mailErr)
            up == WarriorUpdatePassword(x.db, warriorID, pw.password)
            x1 == [Called(x0, "WarriorUpdatePassword", warriorID)
                     EXCEPT !.db = up.db]
        IN  IF up.err THEN WriteHeader(x1, StatusInternalServerError) ELSE x1

handleUpdatePassword(x, r) ==
    LET warriorID == x.ctxID
        pw == ValidateWarriorPassword(r.pwd1, r.pwd2)
    IN  IF pw.err THEN WriteHeader(x, StatusBadRequest)
        ELSE
        LET up == WarriorUpdatePassword(x.db, warriorID, pw.password)
            x1 == [Called(x, "WarriorUpdatePassword", warriorID)
                     EXCEPT !.db = up.db]
        IN  IF up.err THEN WriteHeader(x1, StatusInternalServerError)
            ELSE Sent(x1, "update", up.email, EmptyID, r.mailErr)


\* handleAccountVerification dropping verifyErr
handleAccountVerification_ignoresErr(x, r) ==
    LET v == VerifyWarriorAccount(x.db, r.verifyId)
    IN  [Called(x, "VerifyWarriorAccount", r.verifyId) EXCEPT !.db = v.db]

handleAccountVerification(x, r) ==
    LET v == VerifyWarriorAccount(x.db, r.verifyId)
        x1 == [Called(x, "VerifyWarriorAccount", r.verifyId) EXCEPT !.db = v.db]
    IN  IF v.err THEN WriteHeader(x1, StatusInternalServerError) ELSE x1

\* r.bodyOK: the body carries the fields the handler asserts the type of
handleAPIKeyGenerate(x, r) ==
    IF ~r.bodyOK THEN Panic(x)
    ELSE IF r.id # x.ctxID THEN WriteHeader(x, StatusUnauthorized)
    ELSE
    LET g == GenerateAPIKey(x.db, r.id, r.name)
        x1 == [Called(x, "GenerateAPIKey", r.id) EXCEPT !.db = g.db]
    IN  IF g.err THEN WriteHeader(x1, StatusInternalServerError)
        ELSE RespondWithJSON(x1, StatusOK, g.key)

handleWarriorAPIKeyUpdate(x, r) ==
    IF r.id # x.ctxID THEN WriteHeader(x, StatusUnauthorized)
    ELSE IF ~r.bodyOK THEN Panic(x)
    ELSE
    LET u == UpdateWarriorAPIKey(x.db, r.id, r.keyID, r.active)
        x1 == [Called(x, "UpdateWarriorAPIKey", r.id) EXCEPT !.db = u.db]
    IN  IF u.err THEN WriteHeader(x1, StatusInternalServerError)
        ELSE RespondWithJSON(x1, StatusOK, [kind |-> "apikeys", keys |-> u.keys])


\* handleWarriorAPIKeyDelete listing the keys in place of deleting one
handleWarriorAPIKeyDelete_lists(x, r) ==
    IF r.id # x.ctxID THEN WriteHeader(x, StatusUnauthorized)
    ELSE RespondWithJSON(Called(x, "GetWarriorAPIKeys", r.id), StatusOK,
                         [kind |-> "apikeys", keys |-> GetWarriorAPIKeys(x.db, r.id)])

handleWarriorAPIKeyDelete(x, r) ==
    IF r.id # x.ctxID THEN WriteHeader(x, StatusUnauthorized)
    ELSE
    LET del == DeleteWarriorAPIKey(x.db, r.id, r.keyID)
        x1 == [Called(x, "DeleteWarriorAPIKey", r.id) EXCEPT !.db = del.db]
    IN  IF del.err THEN WriteHeader(x1, StatusInternalServerError)
        ELSE RespondWithJSON(x1, StatusOK, [kind |-> "apikeys", keys |-> del.keys])

handleWarriorPromote(x, r) ==
    IF r.jsonErr THEN WriteHeader(x, StatusBadRequest)
    ELSE
    LET p == PromoteWarrior(x.db, r.warriorId)
        x1 == [Called(x, "PromoteWarrior", r.warriorId) EXCEPT !.db = p.db]
    IN  IF p.err THEN WriteHeader(x1, StatusInternalServerError) ELSE x1

handleWarriorDemote(x, r) ==
    IF r.jsonErr THEN WriteHeader(x, StatusBadRequest)
    ELSE
    LET p == DemoteWarrior(x.db, r.warriorId)
        x1 == [Called(x, "DemoteWarrior", r.warriorId) EXCEPT !.db = p.db]
    IN  IF p.err THEN WriteHeader(x1, StatusInternalServerError) ELSE x1

\* handleLogin returning on a failed authentication without writing 401
handleLogin_forgets401(x, r) ==
    LET a == authWarriorDatabase(x.db, r.email, r.password)
        x1 == Called(x, "authWarriorDatabase", EmptyID)
    IN  IF a.err THEN x1
        ELSE
        LET cookie == createCookie(a.warrior.id, r.encodeErr)
        IN  IF cookie # <<>>
            THEN RespondWithJSON(SetCookie(x1, cookie[1]), StatusOK, a.warrior)
            ELSE WriteHeader(x1, StatusInternalServerError)

handleLogin(x, r) ==
    LET a == authWarriorDatabase(x.db, r.email, r.password)
        x1 == Called(x, "authWarriorDatabase", EmptyID)
    IN  IF a.err THEN WriteHeader(x1, StatusUnauthorized)
        ELSE
        LET cookie == createCookie(a.warrior.id, r.encodeErr)
        IN  IF cookie # <<>>
            THEN RespondWithJSON(SetCookie(x1, cookie[1]), StatusOK, a.warrior)
            ELSE WriteHeader(x1, StatusInternalServerError)

\* handleWarriorRecruit without the config.allow_guests check
handleWarriorRecruit_ignoresFlag(x, r) ==
    IF r.jsonErr THEN WriteHeader(x, StatusBadRequest)
    ELSE
    LET new == CreateWarriorPrivate(x.db, r.name, r.storeErr)
        x1 == [Called(x, "CreateWarriorPrivate", EmptyID) EXCEPT !.db = new.db]
    IN  IF new.err THEN WriteHeader(x1, StatusInternalServerError)
        ELSE RespondWithJSON(
                 createWarriorCookie(x1, FALSE, new.warrior.id, r.encodeErr),
                 StatusOK, new.warrior)

handleWarriorRecruit(x, r) ==
    IF ~config.AllowGuests THEN WriteHeader(x, StatusBadRequest)
    ELSE IF r.jsonErr THEN WriteHeader(x, StatusBadRequest)
    ELSE
    LET new == CreateWarriorPrivate(x.db, r.name, r.storeErr)
        x1 == [Called(x, "CreateWarriorPrivate", EmptyID) EXCEPT !.db = new.db]
    IN  IF new.err THEN WriteHeader(x1, StatusInternalServerError)
        ELSE RespondWithJSON(
                 createWarriorCookie(x1, FALSE, new.warrior.id, r.encodeErr),
                 StatusOK, new.warrior)

handleWarriorProfile(x, r) ==
    IF r.id # x.ctxID THEN WriteHeader(x, StatusUnauthorized)
    ELSE
    LET w == GetWarrior(x.db, r.id)
        x1 == Called(x, "GetWarrior", r.id)
    IN  IF w.err THEN WriteHeader(x1, StatusInternalServerError)
        ELSE RespondWithJSON(x1, StatusOK, w.warrior)

handleWarriorProfileUpdate(x, r) ==
    IF ~r.bodyOK THEN Panic(x)
    ELSE IF r.id # x.ctxID THEN WriteHeader(x, StatusUnauthorized)
    ELSE
    LET u == UpdateWarriorProfile(x.db, r.id, r.name)
        x1 == [Called(x, "UpdateWarriorProfile", r.id) EXCEPT !.db = u.db]
    IN  IF u.err THEN WriteHeader(x1, StatusInternalServerError)
        ELSE
        LET w == GetWarrior(x1.db, r.id)
            x2 == Called(x1, "GetWarrior", r.id)
        IN  IF w.err THEN WriteHeader(x2, StatusInternalServerError)
            ELSE RespondWithJSON(x2, StatusOK, w.warrior)

\* handleWarriorAPIKeys answering with the stored keys, secret included
handleWarriorAPIKeys_withSecrets(x, r) ==
    IF r.id # x.ctxID THEN WriteHeader(x, StatusUnauthorized)
    ELSE RespondWithJSON(
             Called(x, "GetWarriorAPIKeys", r.id), StatusOK,
             [kind |-> "apikeys",
              keys |-> {KeyView(x.db, k) @@ [key |-> x.db.apiKeys[k].secret] :
                          k \in {j \in DOMAIN x.db.apiKeys :
                                    x.db.apiKeys[j].owner = r.id}}])

handleWarriorAPIKeys(x, r) ==
    IF r.id # x.ctxID THEN WriteHeader(x, StatusUnauthorized)
    ELSE RespondWithJSON(Called(x, "GetWarriorAPIKeys", r.id), StatusOK,
                         [kind |-> "apikeys", keys |-> GetWarriorAPIKeys(x.db, r.id)])

handleWarriorCreate(x, r) ==
    IF r.jsonErr THEN WriteHeader(x, StatusBadRequest)
    ELSE
    LET acct == ValidateWarriorAccount(r.name, r.email, r.pwd1, r.pwd2)
    IN  IF acct.err THEN WriteHeader(x, StatusBadRequest)
        ELSE
        LET new == CreateWarriorCorporal(x.db, acct.name, acct.email,
                                         acct.password, EmptyID)
            x1 == [Called(x, "CreateWarriorCorporal", EmptyID)
                     EXCEPT !.db = new.db]
        IN  IF new.err THEN WriteHeader(x1, StatusInternalServerError)
            ELSE RespondWithJSON(Sent(x1, "welcome", acct.email, new.verifyID,
                                      r.mailErr),
                                 StatusOK, new.warrior)

(***************************************************************************)
(* Routing: which gate wraps which handler                                 *)
(***************************************************************************)
WarriorRoutes ==
    {"updatePassword", "apiKeyGenerate", "apiKeyUpdate", "apiKeyDelete",
     "apiKeys", "profile", "profileUpdate"}
AdminRoutes == {"promote", "demote", "warriorCreate"}
OpenRoutes == {"enlist", "forgot", "reset", "verify", "login", "recruit"}

Handler(x, r) ==
    CASE r.op = "enlist" -> handleWarriorEnlist(x, r)
      [] r.op = "forgot" -> handleForgotPassword(x, r)
      [] r.op = "reset" -> handleResetPassword(x, r)
      [] r.op = "verify" -> handleAccountVerification(x, r)
      [] r.op = "updatePassword" -> handleUpdatePassword(x, r)
      [] r.op = "apiKeyGenerate" -> handleAPIKeyGenerate(x, r)
      [] r.op = "apiKeyUpdate" -> handleWarriorAPIKeyUpdate(x, r)
      [] r.op = "apiKeyDelete" -> handleWarriorAPIKeyDelete(x, r)
      [] r.op = "promote" -> handleWarriorPromote(x, r)
      [] r.op = "demote" -> handleWarriorDemote(x, r)
      [] r.op = "login" -> handleLogin(x, r)
      [] r.op = "recruit" -> handleWarriorRecruit(x, r)
      [] r.op = "profile" -> handleWarriorProfile(x, r)
      [] r.op = "profileUpdate" -> handleWarriorProfileUpdate(x, r)
      [] r.op = "apiKeys" -> handleWarriorAPIKeys(x, r)
      [] r.op = "warriorCreate" -> handleWarriorCreate(x, r)

\* the gate of a gated route
Gate(x, r) ==
    IF r.op \in AdminRoutes THEN adminOnly(x, r) ELSE warriorOnly(x, r)

Serve(d, r) ==
    LET x == NewExchange(d, r.op)
    IN  IF r.op \in OpenRoutes THEN Handler(x, r)
        ELSE LET g == Gate(x, r)
             IN  IF g.handler THEN Handler(g, r) ELSE g

(***************************************************************************)
(* Requests                                                                *)
(***************************************************************************)
ApiKeyHeaders == {<<>>, BlankHeader, BogusKey} \cup {Secret(k) : k \in 1..MaxKeys}

TamperedCookie == [id |-> 1, mac |-> Mac(ServerKey, 2)]

Cookies ==
    {<<>>, <<TamperedCookie>>, <<Encode(ForeignKey, 1)>>}
        \cup {<<Encode(ServerKey, i)>> : i \in 1..MaxWarriors}

Credentials == [apiKey : ApiKeyHeaders, cookie : Cookies]

PasswordPairs ==
    {<<PwdMin, PwdMin>>, <<PwdMax, PwdMax>>, <<PwdMin, PwdOther>>,
     <<PwdShort, PwdShort>>, <<PwdLong, PwdLong>>, <<<<>>, <<>>>>}

\* A body that does not parse leaves every field empty.
NoAccount ==
    [jsonErr |-> TRUE, name |-> <<>>, email |-> <<>>, pwd1 |-> <<>>, pwd2 |-> <<>>]

\* Bodies of Enlist: a new address with every password pair, and a taken
\* address, no address, a malformed address or no name with a valid pair.
AccountBodies(d) ==
    LET fresh == Email(Len(d.warriors) + 1)
        Body(n, e, p1, p2) ==
            [jsonErr |-> FALSE, name |-> n, email |-> e, pwd1 |-> p1, pwd2 |-> p2]
    IN  {NoAccount}
            \cup {Body(SomeName, fresh, pw[1], pw[2]) : pw \in PasswordPairs}
            \cup {Body(SomeName, e, PwdMin, PwdMin) : e \in {Email(1), <<>>, BadEmail}}
            \cup {Body(<<>>, fresh, PwdMin, PwdMin)}

WithinBounds(d) ==
    /\ Len(d.warriors) <= MaxWarriors
    /\ d.keysIssued <= MaxKeys
    /\ d.resetsIssued <= MaxResets

Exchange(x) == [f \in DOMAIN x \ {"db"} |-> x[f]]

Handle(r) ==
    LET x == Serve(db, r)
    IN  /\ WithinBounds(x.db)
        /\ db' = x.db
        /\ req' = r
        /\ resp' = Exchange(x)
        /\ before' = db
        /\ verifyWins' = IF r.op = "verify" /\ Status(x) = StatusOK
                         THEN [verifyWins EXCEPT ![r.verifyId] = @ + 1]
                         ELSE verifyWins
        /\ UNCHANGED config

\* A gated request: its body is read only by the wrapped handler, so the
\* requests a gate rejects are represented by those with the body `plain`.
Gated(r, plain) ==
    /\ r = plain \/ Gate(NewExchange(db, plain.op), plain).handler
    /\ Handle(r)

(***************************************************************************)
(* Actions: one per route, and the end of a request                        *)
(***************************************************************************)
\* mailErr is tried only on the requests that reach a call of s.email
Mailed(r) ==
    \E mailErr \in BOOLEAN :
        /\ mailErr => Serve(db, r).mail # <<>>
        /\ Handle([r EXCEPT !.mailErr = mailErr])

\* the gate of r looks the member record up: lookupErr is tried only there
LooksUp(r) ==
    LET calls == Gate(NewExchange(db, r.op), r).calls
    IN  \E i \in DOMAIN calls : calls[i].fn = "GetWarrior"

GatedMailed(r, plain) ==
    /\ r = plain \/ Gate(NewExchange(db, plain.op), plain).handler
    /\ Mailed(r)

Enlist ==
    /\ req = NoReq
    /\ \E c \in Cookies, b \in AccountBodies(db), encodeErr \in BOOLEAN :
        /\ encodeErr => ~ValidateWarriorAccount(b.name, b.email, b.pwd1, b.pwd2).err
        /\ Mailed([op |-> "enlist", apiKey |-> <<>>, cookie |-> c,
                   jsonErr |-> b.jsonErr, encodeErr |-> encodeErr,
                   mailErr |-> FALSE, name |-> b.name, email |-> b.email,
                   pwd1 |-> b.pwd1, pwd2 |-> b.pwd2])

ForgotPassword ==
    /\ req = NoReq
    /\ \E e \in {<<>>, BadEmail} \cup {Email(i) : i \in 1..MaxWarriors} :
        Mailed([op |-> "forgot", apiKey |-> <<>>, cookie |-> <<>>,
                mailErr |-> FALSE, email |-> e])

ResetPassword ==
    /\ req = NoReq
    /\ \E t \in 0..MaxResets, pw \in PasswordPairs :
        Mailed([op |-> "reset", apiKey |-> <<>>, cookie |-> <<>>,
                mailErr |-> FALSE, resetId |-> t, pwd1 |-> pw[1], pwd2 |-> pw[2]])

AccountVerification ==
    /\ req = NoReq
    /\ \E t \in 0..MaxWarriors :
        Handle([op |-> "verify", apiKey |-> <<>>, cookie |-> <<>>, verifyId |-> t])

UpdatePassword ==
    /\ req = NoReq
    /\ \E c \in Credentials, pw \in PasswordPairs, lookupErr \in BOOLEAN :
        LET R(p, e) == [op |-> "updatePassword", apiKey |-> c.apiKey,
                        cookie |-> c.cookie, lookupErr |-> e, mailErr |-> FALSE,
                        pwd1 |-> p[1], pwd2 |-> p[2]]
        IN  /\ lookupErr => pw = <<PwdMin, PwdMin>>
            /\ lookupErr => LooksUp(R(<<PwdMin, PwdMin>>, FALSE))
            /\ GatedMailed(R(pw, lookupErr), R(<<PwdMin, PwdMin>>, lookupErr))

Login ==
    /\ req = NoReq
    /\ \E e \in {<<>>} \cup {Email(i) : i \in 1..MaxWarriors},
          pw \in {<<>>, PwdMin, PwdOther}, encodeErr \in BOOLEAN :
        LET R(f) == [op |-> "login", apiKey |-> <<>>, cookie |-> <<>>,
                     email |-> e, password |-> pw, encodeErr |-> f]
        IN  /\ encodeErr => ~authWarriorDatabase(db, e, pw).err
            /\ Handle(R(encodeErr))

Recruit ==
    /\ req = NoReq
    /\ \E n \in {<<>>, SomeName}, jsonErr, storeErr, encodeErr \in BOOLEAN :
        /\ jsonErr => n = <<>> /\ ~storeErr
        /\ storeErr => ~encodeErr
        /\ (storeErr \/ encodeErr) => n = SomeName
        /\ Handle([op |-> "recruit", apiKey |-> <<>>, cookie |-> <<>>,
                   jsonErr |-> jsonErr, storeErr |-> storeErr,
                   encodeErr |-> encodeErr, name |-> n])

WarriorProfile ==
    /\ req = NoReq
    /\ \E c \in Credentials, id \in 1..MaxWarriors, lookupErr \in BOOLEAN :
        LET R(i, e) == [op |-> "profile", apiKey |-> c.apiKey,
                        cookie |-> c.cookie, lookupErr |-> e, id |-> i]
        IN  /\ lookupErr => id = 1
            /\ lookupErr => LooksUp(R(1, FALSE))
            /\ Gated(R(id, lookupErr), R(1, lookupErr))

\* bodyOK = FALSE: warriorName or warriorAvatar is missing or no string
WarriorProfileUpdate ==
    /\ req = NoReq
    /\ \E c \in Credentials, id \in 1..MaxWarriors, bodyOK \in BOOLEAN,
          lookupErr \in BOOLEAN :
        LET R(i, ok, e) == [op |-> "profileUpdate", apiKey |-> c.apiKey,
                            cookie |-> c.cookie, lookupErr |-> e, id |-> i,
                            bodyOK |-> ok,
                            name |-> IF ok THEN OtherName ELSE <<>>]
        IN  /\ lookupErr => (id = 1 /\ bodyOK)
            /\ lookupErr => LooksUp(R(1, TRUE, FALSE))
            /\ Gated(R(id, bodyOK, lookupErr), R(1, TRUE, lookupErr))

\* bodyOK = FALSE: name is missing or no string
APIKeyGenerate ==
    /\ req = NoReq
    /\ \E c \in Credentials, id \in 1..MaxWarriors, bodyOK \in BOOLEAN,
          lookupErr \in BOOLEAN :
        LET R(i, ok, e) == [op |-> "apiKeyGenerate", apiKey |-> c.apiKey,
                            cookie |-> c.cookie, lookupErr |-> e, id |-> i,
                            bodyOK |-> ok,
                            name |-> IF ok THEN SomeLabel ELSE <<>>]
        IN  /\ lookupErr => (id = 1 /\ bodyOK)
            /\ lookupErr => LooksUp(R(1, TRUE, FALSE))
            /\ Gated(R(id, bodyOK, lookupErr), R(1, TRUE, lookupErr))

WarriorAPIKeys ==
    /\ req = NoReq
    /\ \E c \in Credentials, id \in 1..MaxWarriors, lookupErr \in BOOLEAN :
        LET R(i, e) == [op |-> "apiKeys", apiKey |-> c.apiKey,
                        cookie |-> c.cookie, lookupErr |-> e, id |-> i]
        IN  /\ lookupErr => id = 1
            /\ lookupErr => LooksUp(R(1, FALSE))
            /\ Gated(R(id, lookupErr), R(1, lookupErr))

\* bodyOK = FALSE: active is missing or no boolean
APIKeyUpdate ==
    /\ req = NoReq
    /\ \E c \in Credentials, id \in 1..MaxWarriors, k \in 1..MaxKeys,
          a \in BOOLEAN, bodyOK \in BOOLEAN, lookupErr \in BOOLEAN :
        LET R(i, j, b, ok, e) ==
                [op |-> "apiKeyUpdate", apiKey |-> c.apiKey, cookie |-> c.cookie,
                 lookupErr |-> e, id |-> i, keyID |-> j, bodyOK |-> ok,
                 active |-> ok /\ b]
        IN  /\ ~bodyOK => (~a /\ k = 1)
            /\ lookupErr => (id = 1 /\ k = 1 /\ ~a /\ bodyOK)
            /\ lookupErr => LooksUp(R(1, 1, FALSE, TRUE, FALSE))
            /\ Gated(R(id, k, a, bodyOK, lookupErr),
                     R(1, 1, FALSE, TRUE, lookupErr))

APIKeyDelete ==
    /\ req = NoReq
    /\ \E c \in Credentials, id \in 1..MaxWarriors, k \in 1..MaxKeys,
          lookupErr \in BOOLEAN :
        LET R(i, j, e) == [op |-> "apiKeyDelete", apiKey |-> c.apiKey,
                           cookie |-> c.cookie, lookupErr |-> e, id |-> i,
                           keyID |-> j]
        IN  /\ lookupErr => (id = 1 /\ k = 1)
            /\ lookupErr => LooksUp(R(1, 1, FALSE))
            /\ Gated(R(id, k, lookupErr), R(1, 1, lookupErr))

WarriorCreate ==
    /\ req = NoReq
    /\ \E c \in Credentials, b \in AccountBodies(db) :
        LET R(a) == [op |-> "warriorCreate", apiKey |-> c.apiKey,
                     cookie |-> c.cookie, jsonErr |-> a.jsonErr,
                     mailErr |-> FALSE, name |-> a.name, email |-> a.email,
                     pwd1 |-> a.pwd1, pwd2 |-> a.pwd2]
        IN  GatedMailed(R(b), R(NoAccount))

Promote ==
    /\ req = NoReq
    /\ \E c \in Credentials, id \in 1..MaxWarriors, jsonErr \in BOOLEAN :
        LET R(i, e) == [op |-> "promote", apiKey |-> c.apiKey, cookie |-> c.cookie,
                        jsonErr |-> e, warriorId |-> IF e THEN EmptyID ELSE i]
        IN  Gated(R(id, jsonErr), R(1, FALSE))

Demote ==
    /\ req = NoReq
    /\ \E c \in Credentials, id \in 1..MaxWarriors, jsonErr \in BOOLEAN :
        LET R(i, e) == [op |-> "demote", apiKey |-> c.apiKey, cookie |-> c.cookie,
                        jsonErr |-> e, warriorId |-> IF e THEN EmptyID ELSE i]
        IN  Gated(R(id, jsonErr), R(1, FALSE))

\* The handler has returned: the request and its writer are gone.
Finish ==
    /\ req # NoReq
    /\ req' = NoReq
    /\ resp' = NoResp
    /\ before' = db
    /\ UNCHANGED <<db, config, verifyWins>>

Admin ==
    [name |-> SomeName, email |-> Email(1), password |-> HashPassword(PwdMin),
     rank |-> "GENERAL", verified |-> TRUE]

Init ==
    /\ db = [warriors |-> <<Admin>>, apiKeys |-> <<>>, keysIssued |-> 0,
             verifies |-> <<>>, verifiesIssued |-> 0,
             resets |-> <<>>, resetsIssued |-> 0]
    /\ config \in [AllowRegistration : BOOLEAN, AllowGuests : BOOLEAN]
    /\ req = NoReq
    /\ resp = NoResp
    /\ before = db
    /\ verifyWins = [t \in 0..MaxWarriors |-> 0]

\* Access control: the two gates over registration, API keys and roles
NextAccess ==
    \/ Enlist
    \/ APIKeyGenerate
    \/ Promote
    \/ Demote
    \/ Finish

\* API keys: issue, activation and deletion, behind both gates
NextKeys ==
    \/ APIKeyGenerate
    \/ WarriorAPIKeys
    \/ APIKeyUpdate
    \/ APIKeyDelete
    \/ Promote
    \/ Demote
    \/ Finish

\* Account lifecycle: registration, verification and the passwords
NextAccount ==
    \/ Enlist
    \/ AccountVerification
    \/ ForgotPassword
    \/ ResetPassword
    \/ UpdatePassword
    \/ Finish

\* Guests and registered members: recruiting, registering, logging in
NextGuests ==
    \/ Recruit
    \/ Enlist
    \/ WarriorCreate
    \/ Login
    \/ Finish

\* Member-scoped routes: the profile and the API keys of a path ID
NextOwner ==
    \/ Enlist
    \/ WarriorProfile
    \/ WarriorProfileUpdate
    \/ APIKeyGenerate
    \/ WarriorAPIKeys
    \/ APIKeyUpdate
    \/ APIKeyDelete
    \/ Finish

SpecAccess == Init /\ [][NextAccess]_vars

SpecKeys == Init /\ [][NextKeys]_vars

SpecAccount == Init /\ [][NextAccount]_vars

SpecGuests == Init /\ [][NextGuests]_vars

SpecOwner == Init /\ [][NextOwner]_vars

(***************************************************************************)
(* Vocabulary of the properties.  They are stated over a served request:   *)
(* req, what was done for it (resp), and the store before and after it.    *)
(***************************************************************************)
Served == req # NoReq

GatedReq == Served /\ req.op \in WarriorRoutes \cup AdminRoutes

\* the request carries an API key (the header is not empty once trimmed)
KeyPath == GatedReq /\ TrimSpace(req.apiKey) # <<>>

CookiePath == GatedReq /\ TrimSpace(req.apiKey) = <<>>

\* the store failed on warriorOnly's lookup of the member record
LookupErr == Served /\ req.op \in WarriorRoutes /\ req.lookupErr

\* the owners of the active keys of store d whose secret is apk
KeyOwners(d, apk) ==
    {d.apiKeys[k].owner :
        k \in {j \in DOMAIN d.apiKeys :
                  d.apiKeys[j].secret = apk /\ d.apiKeys[j].active}}

\* the IDs for which r's cookie is a value this server encoded
CookieIDs(r) == {i \in 1..MaxWarriors : r.cookie = <<Encode(ServerKey, i)>>}

\* the identity the credentials of r stand for in store d (none, or one)
Resolved(r, d) ==
    IF TrimSpace(r.apiKey) # <<>> THEN KeyOwners(d, TrimSpace(r.apiKey))
    ELSE CookieIDs(r)

UndecodableCookies == {<<TamperedCookie>>, <<Encode(ForeignKey, 1)>>}

\* the response clears the frontend and the backend cookie
Cleared ==
    \E i, j \in DOMAIN resp.cookies :
        resp.cookies[i] = ClearFrontend /\ resp.cookies[j] = ClearBackend

IsAdmin(d, id) == id \in DOMAIN d.warriors /\ d.warriors[id].rank = "GENERAL"

DeletedKeys(d) == {k \in 1..d.keysIssued : k \notin DOMAIN d.apiKeys}

(***************************************************************************)
(* C1  No fallback.  In both gates, a request whose API-key header is not  *)
(* empty and whose key the store does not accept ends with 401; the        *)
(* wrapped handler is not invoked, the cookie is not decoded and the store *)
(* is unchanged, whatever cookie the request carries.                      *)
(***************************************************************************)
C1_NoFallback ==
    (KeyPath /\ KeyOwners(before, TrimSpace(req.apiKey)) = {})
        => /\ Status(resp) = StatusUnauthorized
           /\ ~resp.handler
           /\ ~resp.decoded
           /\ resp.cookies = <<>>
           /\ db = before

\* an unknown key beside the admin's own valid cookie, on an admin route
C1_Witness ==
    /\ KeyPath
    /\ req.op = "promote"
    /\ req.apiKey = BogusKey
    /\ req.cookie = <<Encode(ServerKey, 1)>>
    /\ IsAdmin(before, 1)
    /\ Status(resp) = StatusUnauthorized

(***************************************************************************)
(* C2  On the cookie path (a gated request without API key, or Enlist once *)
(* it reads the cookie) a cookie that does not decode yields no member ID: *)
(* the gate invokes no handler and binds no ID, Enlist passes the empty ID *)
(* to the store, and the response clears both cookies.                     *)
(***************************************************************************)
EnlistReadsCookie ==
    Served /\ req.op = "enlist" /\ config.AllowRegistration /\ ~req.jsonErr

C2_UndecodableCookie ==
    (Served /\ (CookiePath \/ EnlistReadsCookie) /\ req.cookie \in UndecodableCookies)
        => /\ resp.decoded
           /\ Cleared
           /\ ~resp.handler
           /\ resp.ctxID = EmptyID
           /\ \A i \in DOMAIN resp.calls :
                 resp.calls[i].fn = "CreateWarriorCorporal"
                     => resp.calls[i].id = EmptyID
           /\ CookiePath => (Status(resp) = StatusUnauthorized /\ db = before)

\* a tampered cookie naming the admin, on an admin route
C2_Witness ==
    /\ CookiePath
    /\ req.op \in AdminRoutes
    /\ req.cookie = <<TamperedCookie>>
    /\ Cleared
    /\ Status(resp) = StatusUnauthorized

(***************************************************************************)
(* C3  In both gates the handler is invoked only when the credentials      *)
(* resolve, and then the ID bound in the context is the resolved one (the  *)
(* key's owner, or the cookie's ID); when they do not resolve the answer   *)
(* is 401, and whenever the handler is not invoked the store is unchanged. *)
(***************************************************************************)
C3_GateBindsResolvedID ==
    GatedReq
        => /\ resp.handler => resp.ctxID \in Resolved(req, before)
           /\ Resolved(req, before) = {}
                 => (~resp.handler /\ Status(resp) = StatusUnauthorized)
           /\ ~resp.handler => db = before

\* the key of member 2 beside the cookie of member 1: the handler runs as 2
C3_Witness ==
    /\ KeyPath
    /\ resp.handler
    /\ resp.ctxID = 2
    /\ req.cookie = <<Encode(ServerKey, 1)>>

(***************************************************************************)
(* C4  warriorOnly: when the resolved ID has no member record the gate     *)
(* clears both cookies, answers 401 and does not invoke the handler; the   *)
(* handler runs only for IDs whose record was in the store.                *)
(***************************************************************************)
C4_MissingRecord ==
    (Served /\ req.op \in WarriorRoutes)
        => /\ \A id \in Resolved(req, before) :
                 id \notin DOMAIN before.warriors
                     => /\ Cleared
                        /\ Status(resp) = StatusUnauthorized
                        /\ ~resp.handler
                        /\ db = before
           /\ resp.handler => resp.ctxID \in DOMAIN before.warriors

\* a well-formed cookie for an ID the store has no record of
C4_Witness ==
    /\ Served
    /\ req.op \in WarriorRoutes
    /\ Resolved(req, before) = {2}
    /\ 2 \notin DOMAIN before.warriors
    /\ Status(resp) = StatusUnauthorized

(***************************************************************************)
(* C5  adminOnly: the handler is invoked only if the resolved ID was an    *)
(* admin; a resolved non-admin is answered 401 with the handler not        *)
(* invoked; and a member's role changes only in an admin-gated request     *)
(* made by an admin.                                                       *)
(***************************************************************************)
C5_AdminOnly ==
    /\ (Served /\ req.op \in AdminRoutes)
          => /\ resp.handler => IsAdmin(before, resp.ctxID)
             /\ \A id \in Resolved(req, before) :
                   ~IsAdmin(before, id)
                       => /\ ~resp.handler
                          /\ Status(resp) = StatusUnauthorized
                          /\ db = before
    /\ \A i \in DOMAIN before.warriors :
          db.warriors[i].rank # before.warriors[i].rank
              => /\ Served
                 /\ req.op \in AdminRoutes
                 /\ resp.handler
                 /\ IsAdmin(before, resp.ctxID)

\* a registered member, not an admin, asks for a promotion
C5_Witness ==
    /\ Served
    /\ req.op = "promote"
    /\ ~req.jsonErr
    /\ Resolved(req, before) = {2}
    /\ 2 \in DOMAIN before.warriors
    /\ ~IsAdmin(before, 2)
    /\ Status(resp) = StatusUnauthorized

\* the members of store d registered under an address
MembersByEmail(d, email) ==
    {i \in DOMAIN d.warriors : email # <<>> /\ d.warriors[i].email = email}

(***************************************************************************)
(* C6  Anti-enumeration.  Every forgotPassword request is answered with    *)
(* the same response (status 200, no body, no cookie) whether or not the   *)
(* address belongs to a member; when it does, one reset token is issued    *)
(* for that member and mailed to the address, and when it does not the     *)
(* store is unchanged and nothing is mailed.                               *)
(***************************************************************************)
C6_AntiEnumeration ==
    (Served /\ req.op = "forgot")
        => /\ resp.status = <<StatusOK>>
           /\ resp.body = NoBody
           /\ resp.cookies = <<>>
           /\ IF MembersByEmail(before, req.email) # {}
              THEN LET t == before.resetsIssued + 1
                   IN  /\ db = [before EXCEPT
                                  !.resets = @ @@ (t :> db.resets[t]),
                                  !.resetsIssued = t]
                       /\ db.resets[t] \in MembersByEmail(before, req.email)
                       /\ resp.mail = <<[kind |-> "forgot", to |-> req.email,
                                         token |-> t]>>
              ELSE db = before /\ resp.mail = <<>>

\* a request for an address of no member, answered 200 with nothing done
C6_Witness ==
    /\ Served
    /\ req.op = "forgot"
    /\ req.email = Email(2)
    /\ MembersByEmail(before, req.email) = {}
    /\ before.resetsIssued = 1
    /\ resp.status = <<StatusOK>>
    /\ resp.mail = <<>>

(***************************************************************************)
(* C7  Single-use verification.  A verify request succeeds if and only if  *)
(* its token is pending; it then consumes the token and sets the member's  *)
(* verified flag.  A request with a consumed or unknown token is answered  *)
(* 500 and changes nothing, so over any sequence of requests no token      *)
(* succeeds more than once.                                                *)
(***************************************************************************)
C7_SingleUseVerification ==
    /\ (Served /\ req.op = "verify")
          => IF req.verifyId \in DOMAIN before.verifies
             THEN /\ Status(resp) = StatusOK
                  /\ req.verifyId \notin DOMAIN db.verifies
                  /\ db.warriors[before.verifies[req.verifyId]].verified
             ELSE /\ Status(resp) = StatusInternalServerError
                  /\ db = before
    /\ \A t \in DOMAIN verifyWins : verifyWins[t] <= 1

\* the token that already succeeded once is presented again and refused
C7_Witness ==
    /\ Served
    /\ req.op = "verify"
    /\ verifyWins[req.verifyId] = 1
    /\ req.verifyId \notin DOMAIN before.verifies
    /\ Status(resp) = StatusInternalServerError

(***************************************************************************)
(* C8  resetPassword with a password that differs from its confirmation,   *)
(* or whose length is outside 6..72, is answered 400 before any store      *)
(* call: the store (token and credential) is unchanged and nothing is      *)
(* mailed.  The token is still usable: a request with a pending token and  *)
(* a valid pair is answered 200, consumes it and rewrites the credential.  *)
(***************************************************************************)
ValidPair(pwd1, pwd2) ==
    /\ Len(pwd1) >= MinPassword
    /\ Len(pwd1) <= MaxPassword
    /\ pwd2 = pwd1

C8_ResetValidatesFirst ==
    (Served /\ req.op = "reset")
        => IF ~ValidPair(req.pwd1, req.pwd2)
           THEN /\ Status(resp) = StatusBadRequest
                /\ resp.calls = <<>>
                /\ resp.mail = <<>>
                /\ db = before
           ELSE req.resetId \in DOMAIN before.resets
                   => /\ Status(resp) = StatusOK
                      /\ req.resetId \notin DOMAIN db.resets
                      /\ db.warriors[before.resets[req.resetId]].password
                            = HashPassword(req.pwd1)

\* a pending token presented with a confirmation that differs
C8_Witness ==
    /\ Served
    /\ req.op = "reset"
    /\ req.resetId \in DOMAIN before.resets
    /\ req.pwd1 # req.pwd2
    /\ Len(req.pwd1) = MinPassword
    /\ Len(req.pwd2) = MinPassword
    /\ Status(resp) = StatusBadRequest
    /\ req.resetId \in DOMAIN db.resets

(***************************************************************************)
(* C9  Enlist.  While registration is allowed, a request whose body parses *)
(* and carries a non-empty name, a well-formed address registered to no    *)
(* member, a password of length 6..72 and an equal confirmation creates an *)
(* unverified member with a pending verification token, hands that token   *)
(* to the welcome notification and answers with the member; the status is  *)
(* 200, or 500 when encoding the session cookie failed.                    *)
(***************************************************************************)
ValidFields(r) ==
    /\ r.name # <<>>
    /\ IsEmail(r.email)
    /\ ValidPair(r.pwd1, r.pwd2)

\* the request registered member id, unverified, with pending token t
Registered(id, t) ==
    /\ id = Len(before.warriors) + 1
    /\ Len(db.warriors) = id
    /\ db.warriors[id] = [name |-> req.name, email |-> req.email,
                          password |-> HashPassword(req.pwd1),
                          rank |-> "CORPORAL", verified |-> FALSE]
    /\ t \in DOMAIN db.verifies \ DOMAIN before.verifies
    /\ db.verifies[t] = id
    /\ resp.mail = <<[kind |-> "welcome", to |-> req.email, token |-> t]>>
    /\ resp.body = WarriorView(db, id)

C9_EnlistCreatesUnverified ==
    (/\ Served
     /\ req.op = "enlist"
     /\ config.AllowRegistration
     /\ ~req.jsonErr
     /\ ValidFields(req)
     /\ MembersByEmail(before, req.email) = {})
        => /\ \E id \in DOMAIN db.warriors, t \in DOMAIN db.verifies :
                 Registered(id, t)
           /\ Status(resp) = IF req.encodeErr THEN StatusInternalServerError
                             ELSE StatusOK

\* the claim as the specification words it: every request with valid fields
\* registers a member and succeeds
C9_AsWritten ==
    (Served /\ req.op = "enlist" /\ ~req.jsonErr /\ ValidFields(req))
        => /\ \E id \in DOMAIN db.warriors, t \in DOMAIN db.verifies :
                 Registered(id, t)
           /\ Status(resp) = StatusOK

\* a registration that went through, with its session cookie
C9_Witness ==
    /\ Served
    /\ req.op = "enlist"
    /\ config.AllowRegistration
    /\ ValidFields(req)
    /\ Len(req.pwd1) = MaxPassword
    /\ Registered(2, 1)
    /\ Status(resp) = StatusOK
    /\ \E i \in DOMAIN resp.cookies : resp.cookies[i].name = "backend"
                                       /\ resp.cookies[i].value = Encode(ServerKey, 2)

(***************************************************************************)
(* C10  A deleted API key never authenticates again.  A delete request     *)
(* that succeeds for a key of the caller removes the key; a key once       *)
(* removed stays removed, whatever is generated afterwards; and a request  *)
(* presenting the secret of a removed key to either gate is answered 401   *)
(* with the handler not invoked and the store unchanged.                   *)
(***************************************************************************)
C10_DeletedKeyNeverAuthenticates ==
    /\ (/\ Served
        /\ req.op = "apiKeyDelete"
        /\ resp.handler
        /\ Status(resp) = StatusOK
        /\ req.keyID \in DOMAIN before.apiKeys
        /\ before.apiKeys[req.keyID].owner = req.id)
          => req.keyID \in DeletedKeys(db)
    /\ DeletedKeys(before) \subseteq DeletedKeys(db)
    /\ \A k \in DeletedKeys(before) :
          (GatedReq /\ TrimSpace(req.apiKey) = Secret(k))
              => /\ ~resp.handler
                 /\ Status(resp) = StatusUnauthorized
                 /\ db = before

\* key 1 was deleted and its owner has a new key under the same label: the
\* old secret is refused, even beside the owner's valid cookie
C10_Witness ==
    /\ GatedReq
    /\ req.apiKey = Secret(1)
    /\ req.cookie = <<Encode(ServerKey, 1)>>
    /\ 1 \in DeletedKeys(before)
    /\ 2 \in DOMAIN before.apiKeys
    /\ before.apiKeys[2].owner = 1
    /\ before.apiKeys[2].name = SomeLabel
    /\ Status(resp) = StatusUnauthorized

(***************************************************************************)
(* C11  The secret of an API key is in one response only: the generate     *)
(* response of the request that created the key, which carries that secret *)
(* and no other.  The responses of list, setActive and delete carry key    *)
(* metadata without the secret of any key.                                 *)
(***************************************************************************)
\* the keys whose secret a response body discloses
SecretsIn(body) ==
    {k \in 1..db.keysIssued :
        \/ body.kind = "apikey" /\ body.key = Secret(k)
        \/ /\ body.kind = "apikeys"
           /\ \E v \in body.keys : "key" \in DOMAIN v /\ v.key = Secret(k)}

C11_SecretDisclosedOnce ==
    Served
        => /\ \A k \in SecretsIn(resp.body) :
                 /\ req.op = "apiKeyGenerate"
                 /\ Status(resp) = StatusOK
                 /\ k = before.keysIssued + 1
                 /\ k \in DOMAIN db.apiKeys
                 /\ k \notin DOMAIN before.apiKeys
           /\ (req.op = "apiKeyGenerate" /\ db # before)
                 => SecretsIn(resp.body) = {db.keysIssued}
           /\ req.op \in {"apiKeys", "apiKeyUpdate", "apiKeyDelete"}
                 => SecretsIn(resp.body) = {}

\* the owner lists its keys: metadata of a live key, and no secret
C11_Witness ==
    /\ Served
    /\ req.op = "apiKeys"
    /\ Status(resp) = StatusOK
    /\ resp.body.kind = "apikeys"
    /\ \E v \in resp.body.keys : v.id \in DOMAIN db.apiKeys /\ v.owner = req.id
    /\ SecretsIn(resp.body) = {}

(***************************************************************************)
(* C12  Ownership.  On every member-scoped route addressed by a path ID    *)
(* (profile, profile update, API key generate, list, setActive, delete)    *)
(* the handler calls the store only when the caller ID bound by the gate   *)
(* equals the path ID; when they differ the request is answered 401 and    *)
(* the store is neither read nor written, whoever the caller is.           *)
(***************************************************************************)
OwnerRoutes ==
    {"profile", "profileUpdate", "apiKeyGenerate", "apiKeys", "apiKeyUpdate",
     "apiKeyDelete"}

\* the store calls made by the wrapped handler, after those of the gate
HandlerCalls ==
    LET gate == IF TrimSpace(req.apiKey) # <<>> THEN 2 ELSE 1
    IN  SubSeq(resp.calls, gate + 1, Len(resp.calls))

C12_Ownership ==
    (Served /\ req.op \in OwnerRoutes /\ resp.handler)
        => /\ HandlerCalls # <<>> => req.id = resp.ctxID
           /\ req.id # resp.ctxID
                 => /\ Status(resp) = StatusUnauthorized
                    /\ HandlerCalls = <<>>
                    /\ db = before

(***************************************************************************)
(* C13  The outcome of an email dispatch does not change the result of an  *)
(* account operation: for Enlist, forgotPassword, resetPassword and        *)
(* updatePassword the same request served on the same store with the       *)
(* dispatch failing instead of succeeding (or the reverse) gets the same   *)
(* status, body and cookies and leaves the same store.                     *)
(***************************************************************************)
MailingRoutes == {"enlist", "forgot", "reset", "updatePassword"}

C13_MailOutcomeIgnored ==
    (Served /\ req.op \in MailingRoutes)
        => LET other == Serve(before, [req EXCEPT !.mailErr = ~@])
           IN  /\ Status(other) = Status(resp)
               /\ other.db = db
               /\ other.body = resp.body
               /\ other.cookies = resp.cookies
               /\ other.mail = resp.mail

\* a password reset that went through although its confirmation mail failed
C13_Witness ==
    /\ Served
    /\ req.op = "reset"
    /\ req.mailErr
    /\ resp.mailErrs = 1
    /\ Status(resp) = StatusOK
    /\ req.resetId \in DOMAIN before.resets
    /\ req.resetId \notin DOMAIN db.resets

(***************************************************************************)
(* C14  Fail fast.  In both gates a request with an API key the store does *)
(* not accept is answered 401 whatever its cookie is, and a request        *)
(* without API key whose cookie does not decode is answered 401; in both   *)
(* cases the handler is not invoked.  A request with an accepted API key   *)
(* is resolved by the key alone: its cookie is not examined, so a tampered *)
(* cookie beside it does not reject the request (the handler runs for the  *)
(* key's owner whenever the store returns the owner's record).             *)
(***************************************************************************)
InvalidKey == KeyPath /\ KeyOwners(before, TrimSpace(req.apiKey)) = {}

ValidKey == KeyPath /\ KeyOwners(before, TrimSpace(req.apiKey)) # {}

C14_FailFast ==
    /\ (InvalidKey \/ (CookiePath /\ req.cookie \in UndecodableCookies))
          => (Status(resp) = StatusUnauthorized /\ ~resp.handler)
    /\ ValidKey
          => /\ ~resp.decoded
             /\ resp.cookies = <<>> \/ ~resp.handler
             /\ \A id \in KeyOwners(before, TrimSpace(req.apiKey)) :
                   ((IF req.op \in AdminRoutes THEN IsAdmin(before, id)
                     ELSE id \in DOMAIN before.warriors) /\ ~LookupErr)
                       => (resp.handler /\ resp.ctxID = id)

\* the claim as the specification words it: any invalid credential on the
\* request, the cookie beside a valid API key included, gets 401
C14_AsWritten ==
    (GatedReq /\ (InvalidKey \/ req.cookie \in UndecodableCookies))
        => (Status(resp) = StatusUnauthorized /\ ~resp.handler)

\* an accepted API key beside a tampered cookie: the handler runs
C14_Witness ==
    /\ ValidKey
    /\ req.cookie = <<TamperedCookie>>
    /\ resp.handler
    /\ Status(resp) = StatusOK

(***************************************************************************)
(* C15  Precedence.  The gates decode the cookie only on requests whose    *)
(* API-key header is absent or blank (empty once trimmed); such a request  *)
(* is resolved by its cookie (the handler runs for the cookie's member     *)
(* whenever the store returns its record).  On every request whose header  *)
(* is not blank the identity is decided by the API-key lookup alone: a     *)
(* valid key of member A beside a valid cookie of member B binds A.        *)
(***************************************************************************)
C15_Precedence ==
    GatedReq
        => /\ resp.decoded => TrimSpace(req.apiKey) = <<>>
           /\ KeyPath
                 => (resp.handler
                        => resp.ctxID \in KeyOwners(before, TrimSpace(req.apiKey)))
           /\ CookiePath
                 => /\ req.cookie # <<>> => resp.decoded
                    /\ resp.handler => resp.ctxID \in CookieIDs(req)
                    /\ \A id \in CookieIDs(req) :
                          ((IF req.op \in AdminRoutes THEN IsAdmin(before, id)
                            ELSE id \in DOMAIN before.warriors) /\ ~LookupErr)
                              => resp.handler

\* the claim as the specification words it: a present header, blank or not,
\* keeps the cookie from being decoded
C15_AsWritten ==
    GatedReq
        => /\ resp.decoded => req.apiKey = <<>>
           /\ req.apiKey # <<>>
                 => (resp.handler
                        => resp.ctxID \in KeyOwners(before, TrimSpace(req.apiKey)))

\* the admin's key beside the valid cookie of another member binds the admin
C15_Witness ==
    /\ KeyPath
    /\ KeyOwners(before, TrimSpace(req.apiKey)) = {1}
    /\ CookieIDs(req) = {2}
    /\ 2 \in DOMAIN before.warriors
    /\ resp.handler
    /\ resp.ctxID = 1
    /\ ~resp.decoded

(***************************************************************************)
(* C16  Recruit is gated by the allow-guests flag.  While it is off every  *)
(* Recruit request is answered 400, creates no member and sets no cookie.  *)
(* While it is on, a Recruit answered 200 has created a guest member with  *)
(* no address and no password, issued no verification token, sent no mail  *)
(* and set one session cookie, which decodes to the new member's ID.       *)
(***************************************************************************)
\* the session cookies a response sets (the clearing ones left out)
SessionCookies ==
    {resp.cookies[i] : i \in {j \in DOMAIN resp.cookies : resp.cookies[j].maxAge > 0}}

C16_RecruitGuest ==
    (Served /\ req.op = "recruit")
        => /\ resp.mail = <<>>
           /\ db.verifies = before.verifies
           /\ db.verifiesIssued = before.verifiesIssued
           /\ ~config.AllowGuests
                 => /\ Status(resp) = StatusBadRequest
                    /\ db = before
                    /\ resp.calls = <<>>
                    /\ resp.cookies = <<>>
           /\ (config.AllowGuests /\ Status(resp) = StatusOK)
                 => LET id == Len(before.warriors) + 1
                    IN  /\ db.warriors
                             = Append(before.warriors,
                                      [name |-> req.name, email |-> <<>>,
                                       password |-> NoPassword,
                                       rank |-> "PRIVATE", verified |-> FALSE])
                        /\ resp.body = WarriorView(db, id)
                        /\ Len(resp.cookies) = 1
                        /\ \A c \in SessionCookies :
                              c.name = "backend" /\ Decode(c.value).value = id
                        /\ SessionCookies # {}

\* a guest recruited while the flag is on
C16_Witness ==
    /\ Served
    /\ req.op = "recruit"
    /\ config.AllowGuests
    /\ Status(resp) = StatusOK
    /\ Len(db.warriors) = 2
    /\ db.warriors[2].rank = "PRIVATE"
    /\ SessionCookies # {}

RegisterReq ==
    /\ Served
    /\ req.op = "enlist" \/ (req.op = "warriorCreate" /\ resp.handler)
    /\ ~req.jsonErr

C18_ValidationExact ==
    RegisterReq
        => /\ ValidateWarriorAccount(req.name, req.email, req.pwd1, req.pwd2).err
                 <=> ~ValidFields(req)
           /\ ~ValidFields(req)
                 => /\ Status(resp) = StatusBadRequest
                    /\ db = before
                    /\ \A i \in DOMAIN resp.calls :
                          resp.calls[i].fn # "CreateWarriorCorporal"
                    /\ SessionCookies = {}
                    /\ resp.mail = <<>>
           /\ (ValidFields(req) /\ (req.op = "enlist" => config.AllowRegistration))
                 => /\ \E i \in DOMAIN resp.calls :
                          resp.calls[i].fn = "CreateWarriorCorporal"
                    /\ Status(resp) # StatusBadRequest

\* the admin's create-member with a password of 73 characters
C18_Witness ==
    /\ RegisterReq
    /\ req.op = "warriorCreate"
    /\ req.name # <<>>
    /\ IsEmail(req.email)
    /\ Len(req.pwd1) = MaxPassword + 1
    /\ req.pwd2 = req.pwd1
    /\ Status(resp) = StatusBadRequest

(***************************************************************************)
(* C19  A guest cannot log in by password.  Whatever address and password  *)
(* are submitted, Login never answers with a guest member and never sets a *)
(* cookie for a guest's ID; a login whose address and password match no    *)
(* member is answered 401, and no response other than a 200 sets a cookie. *)
(***************************************************************************)
IsGuest(d, id) == id \in DOMAIN d.warriors /\ d.warriors[id].rank = "PRIVATE"

C19_GuestsCannotLogin ==
    (Served /\ req.op = "login")
        => /\ db = before
           /\ resp.body.kind = "warrior" => ~IsGuest(db, resp.body.id)
           /\ \A i \in DOMAIN resp.cookies :
                 /\ ~Decode(resp.cookies[i].value).err
                 /\ ~IsGuest(db, Decode(resp.cookies[i].value).value)
           /\ Status(resp) # StatusOK
                 => (resp.cookies = <<>> /\ resp.body = NoBody)
           /\ (\A i \in MembersByEmail(db, req.email) :
                  db.warriors[i].password # HashPassword(req.password))
                 => Status(resp) = StatusUnauthorized

\* no address and no password, as a guest has them: refused
C19_Witness ==
    /\ Served
    /\ req.op = "login"
    /\ req.email = <<>>
    /\ req.password = <<>>
    /\ \E i \in DOMAIN db.warriors : IsGuest(db, i) /\ db.warriors[i].email = <<>>
    /\ Status(resp) = StatusUnauthorized
    /\ resp.cookies = <<>>

(***************************************************************************)
(* C20  A notification is sent only after the store operation it reports   *)
(* has succeeded in the same request: the welcome mail after the member    *)
(* and its verification token were created, the reset mail after a reset   *)
(* token was issued, the two password confirmations after the credential   *)
(* was rewritten.  A request answered 400, or answered 500 with the store  *)
(* unchanged, sends nothing, and no request sends more than one mail.      *)
(***************************************************************************)
\* the store call a notification reports
ReportedCall(kind) ==
    CASE kind = "welcome" -> "CreateWarriorCorporal"
      [] kind = "forgot" -> "WarriorResetRequest"
      [] kind = "reset" -> "WarriorResetPassword"
      [] kind = "update" -> "WarriorUpdatePassword"

\* the operation reported by mail m has taken effect in the store
Succeeded(m) ==
    CASE m.kind = "welcome" ->
            /\ Len(db.warriors) = Len(before.warriors) + 1
            /\ db.warriors[Len(db.warriors)].email = m.to
            /\ m.token \in DOMAIN db.verifies \ DOMAIN before.verifies
            /\ db.verifies[m.token] = Len(db.warriors)
      [] m.kind = "forgot" ->
            /\ m.token \in DOMAIN db.resets \ DOMAIN before.resets
            /\ db.warriors[db.resets[m.token]].email = m.to
      [] m.kind = "reset" ->
            /\ req.resetId \in DOMAIN before.resets \ DOMAIN db.resets
            /\ db.warriors[before.resets[req.resetId]].password
                  = HashPassword(req.pwd1)
            /\ db.warriors[before.resets[req.resetId]].email = m.to
      [] m.kind = "update" ->
            /\ db.warriors[resp.ctxID].password = HashPassword(req.pwd1)
            /\ db.warriors[resp.ctxID].email = m.to

C20_MailAfterStore ==
    Served
        => /\ Len(resp.mail) <= 1
           /\ \A m \in {resp.mail[i] : i \in DOMAIN resp.mail} :
                 /\ Succeeded(m)
                 /\ \E i, j \in DOMAIN resp.trace :
                       /\ j < i
                       /\ resp.trace[i] = m.kind
                       /\ resp.trace[j] = ReportedCall(m.kind)
           /\ (\/ Status(resp) = StatusBadRequest
               \/ Status(resp) = StatusInternalServerError /\ db = before)
                 => resp.mail = <<>>

\* a password change confirmed by mail after the store rewrote the credential
C20_Witness ==
    /\ Served
    /\ req.op = "updatePassword"
    /\ db # before
    /\ resp.trace[Len(resp.trace)] = "update"
    /\ resp.trace[Len(resp.trace) - 1] = "WarriorUpdatePassword"
    /\ Len(resp.mail) = 1

(***************************************************************************)
(* C21  A handler never continues its success path after an error status   *)
(* was written: when the encoding of the session cookie fails inside       *)
(* createWarriorCookie during Recruit or Enlist (500 written, no session   *)
(* cookie set), the handler writes no member body, attempts no second      *)
(* status write and (Enlist) sends no welcome email.                       *)
(***************************************************************************)
\* createWarriorCookie was reached (the member was created) and Encode failed
EncodeFailed ==
    /\ Served
    /\ req.op \in {"recruit", "enlist"}
    /\ req.encodeErr
    /\ Len(db.warriors) = Len(before.warriors) + 1

C21_NoContinuation ==
    EncodeFailed
        => /\ Status(resp) = StatusInternalServerError
           /\ SessionCookies = {}
           /\ resp.body = NoBody
           /\ Len(resp.status) = 1
           /\ resp.mail = <<>>

(***************************************************************************)
(* C22  Cookie clearing by the gates on the API-key path.  As written:     *)
(* a request that carries a non-empty API key never has its backend or     *)
(* frontend cookie cleared by adminOnly or warriorOnly, whatever the       *)
(* outcome of the request.                                                 *)
(***************************************************************************)
\* the clearing cookies of the response (no gated handler sets a cookie)
Clearings ==
    {i \in DOMAIN resp.cookies : resp.cookies[i] \in {ClearFrontend, ClearBackend}}

C22_AsWritten == KeyPath => Clearings = {}

\* warriorOnly's lookup of the member record failed for the key's owner
KeyLookupFailed ==
    /\ KeyPath
    /\ req.op \in WarriorRoutes
    /\ \E id \in KeyOwners(before, TrimSpace(req.apiKey)) :
          id \notin DOMAIN before.warriors \/ req.lookupErr

(***************************************************************************)
(* C22  On a request that carries a non-empty API key adminOnly never      *)
(* writes a cookie, and warriorOnly writes cookies in exactly one case:    *)
(* the key resolved and the lookup of the member record failed; it then    *)
(* clears the frontend and the backend cookie, in this order, answers 401  *)
(* and does not invoke the handler.  The request's cookie is never         *)
(* decoded on this path.                                                   *)
(***************************************************************************)
C22_KeyPathClearing ==
    KeyPath
        => /\ ~resp.decoded
           /\ req.op \in AdminRoutes => resp.cookies = <<>>
           /\ req.op \in WarriorRoutes
                 => IF KeyLookupFailed
                    THEN /\ resp.cookies = <<ClearFrontend, ClearBackend>>
                         /\ Status(resp) = StatusUnauthorized
                         /\ ~resp.handler
                         /\ db = before
                    ELSE resp.cookies = <<>>

\* a valid key whose owner's record could not be read: both cookies cleared
C22_Witness ==
    /\ KeyLookupFailed
    /\ req.cookie \in {<<Encode(ServerKey, i)>> : i \in 1..MaxWarriors}
    /\ Cleared
    /\ Status(resp) = StatusUnauthorized

(***************************************************************************)
(* C23  Enlist is gated by the allow-registration flag: while the flag is  *)
(* off every Enlist request, valid or not, is answered 400 (the only       *)
(* status write), creates no member, issues no verification token,         *)
(* neither sets nor clears a cookie and sends no email; the body, the      *)
(* cookie and the store are not even read.                                 *)
(***************************************************************************)
C23_RegistrationFlag ==
    (Served /\ req.op = "enlist" /\ ~config.AllowRegistration)
        => /\ resp.status = <<StatusBadRequest>>
           /\ resp.body = NoBody
           /\ db = before
           /\ resp.calls = <<>>
           /\ resp.cookies = <<>>
           /\ ~resp.decoded
           /\ resp.mail = <<>>

\* a registration that would go through, and one whose cookie would be
\* cleared, turned down because the flag is off
C23_Witness ==
    /\ Served
    /\ req.op = "enlist"
    /\ ~config.AllowRegistration
    /\ ~req.jsonErr
    /\ ValidFields(req)
    /\ MembersByEmail(before, req.email) = {}
    /\ req.cookie = <<TamperedCookie>>
    /\ Status(resp) = StatusBadRequest

(***************************************************************************)
(* C24  Enlist never fails because of the caller's session cookie.  The    *)
(* active-member ID passed to CreateWarriorCorporal is the decoded cookie  *)
(* ID when the request carries a cookie this server encoded, and the empty *)
(* ID when the cookie is missing or does not decode.  The same request     *)
(* with any other cookie gets the same status, body and mail and leaves    *)
(* the same store, so valid input is registered either way.  On success    *)
(* the last cookie written is the new member's session cookie: the         *)
(* clearing done by a failed cookie read comes before it.                  *)
(***************************************************************************)
\* the ID Enlist hands to the store as the active member
ActiveIDs == IF CookieIDs(req) # {} THEN CookieIDs(req) ELSE {EmptyID}

====
